---- MODULE Spec2Model ----
(***************************************************************************)
(* Face verification flow of guardwise-companion-ai: the FaceApiService    *)
(* functions (model loading, detection, matching, (de)serialisation) and   *)
(* the FacialScanner component (camera start, scan, timers, callbacks)     *)
(* with its CheckIn host; the geofence checks of GeolocationService; and   *)
(* AuthContext.loginWithFace.                                              *)
(*                                                                         *)
(* Numbers.  Descriptor components and thresholds are fixed-point values   *)
(* in units of 0.1, so the default threshold 0.6 is the integer 6.  A      *)
(* Euclidean distance is carried as its square (the integer n stands for   *)
(* the distance sqrt(n) units); since sqrt is strictly increasing the      *)
(* comparison "distance < t" is decided exactly by DistLess.               *)
(*                                                                         *)
(* Optional values (an omitted argument, null, undefined) are sequences of *)
(* length 0 or 1: None and Some(x).                                        *)
(***************************************************************************)
EXTENDS Integers, Sequences, FiniteSets, TLC

(* ------------------------------ bounds -------------------------------- *)
DescLen == 2        \* components of a descriptor (128 in the program)
MaxGuards == 1      \* entries of the guardDescriptors prop
MaxLabels == 2      \* labeled descriptors handed to createFaceMatcher
MaxPerLabel == 2    \* descriptors enrolled under one label
MaxScans == 3       \* extractions started during one scanner instance
MaxCams == 2        \* startCamera calls during one scanner instance
MaxLoadCalls == 5   \* calls of loadFaceApiModels during one page load
MaxArc == 5         \* positions lie 0..MaxArc quarter-metres along one meridian
MaxPoints == 2      \* patrol points handed to checkPatrolPoint
MaxSessions == 2    \* OTP sessions opened
MaxClock == 12      \* minutes the clock runs

(* ------------------------- program constants -------------------------- *)
DefaultThreshold == 6      \* threshold: number = 0.6
ScannerThreshold == 6      \* matchThreshold = 0.6
MaxPollAttempts == 10      \* while (!areModelsLoaded() && attempts < 10)
Infinity == 1000000        \* let minDistance = Infinity: above every distance and radius
OtpLifetime == 10          \* minutes: expiresAt = Date.now() + 10 * 60 * 1000

(* ------------------------------ values -------------------------------- *)
None == <<>>
Some(x) == <<x>>

Coords == {0, 3, 6}
Descriptors == [1..DescLen -> Coords]
Axis(x) == [i \in 1..DescLen |-> IF i = 1 THEN x ELSE 0]
EnrolledDescriptors == {Axis(0), Axis(6)}
GuardIds == <<"g1", "g2", "g3", "g4">>
Thresholds == {3, 6, 7}

Statuses ==
  {"idle", "initializing", "scanning", "processing", "success", "error", "no-face", "no-match"}

MsgModels == "Face recognition models not loaded. Please refresh the app."
MsgCamera == "Camera access denied. Please allow camera permissions."
MsgUnable == "Unable to perform scan. Please try again."
MsgNoFace == "No face detected. Please position your face in the frame and try again."
MsgNoMatch == "Face does not match registered profile. Please try again."
MsgDetect == "Face detection failed. Please try again."

(* -------------------------- FaceApiService ---------------------------- *)
RECURSIVE SumSq(_, _, _)
SumSq(a, b, i) ==
  IF i = 0 THEN 0 ELSE (a[i] - b[i]) * (a[i] - b[i]) + SumSq(a, b, i - 1)

\* faceapi.euclideanDistance: the square of the distance (see "Numbers").
euclideanDistance(arr1, arr2) == SumSq(arr1, arr2, Len(arr1))

\* distance < threshold, for a squared distance n and a threshold t.
DistLess(n, t) == t > 0 /\ n < t * t

\* distance <= threshold; not used by the program.
DistLessEq(n, t) == t >= 0 /\ n <= t * t

calculateDistance(descriptor1, descriptor2) == euclideanDistance(descriptor1, descriptor2)

descriptorsMatch_Inclusive(descriptor1, descriptor2, threshold) ==
  LET t == IF threshold = None THEN DefaultThreshold ELSE threshold[1]
      distance == calculateDistance(descriptor1, descriptor2)
  IN  DistLessEq(distance, t)

descriptorsMatch(descriptor1, descriptor2, threshold) ==
  LET t == IF threshold = None THEN DefaultThreshold ELSE threshold[1]
      distance == calculateDistance(descriptor1, descriptor2)
  IN  DistLess(distance, t)

\* Components written with no fractional digit (0.3 is written as 0).
descriptorToString_Rounded(descriptor) ==
  [i \in 1..Len(descriptor) |->
     [json |-> "number", v |-> 4 * (10 * ((descriptor[i] + 5) \div 10))]]

\* JSON.stringify(Array.from(descriptor)): one JSON number token per component.
\* Array.from widens each 32-bit component to the double of the same value
\* and the token is the decimal text that reads back as exactly that double;
\* a double is counted in units four times finer than a component.
descriptorToString(descriptor) ==
  [i \in 1..Len(descriptor) |-> [json |-> "number", v |-> 4 * descriptor[i]]]

\* new Float32Array(JSON.parse(str)): each token's double narrowed to the
\* nearest 32-bit value, a null token giving 0.
stringToDescriptor(str) ==
  [i \in 1..Len(str) |-> IF str[i].json = "number" THEN (str[i].v + 2) \div 4 ELSE 0]

createFaceMatcher_FirstOnly(labeledDescriptors, threshold) ==
  [ labeledDescriptors |->
      [i \in 1..Len(labeledDescriptors) |->
         [label |-> labeledDescriptors[i].label,
          descriptors |-> <<labeledDescriptors[i].descriptors[1]>>]],
    distanceThreshold |-> IF threshold = None THEN DefaultThreshold ELSE threshold[1] ]

createFaceMatcher(labeledDescriptors, threshold) ==
  [ labeledDescriptors |->
      [i \in 1..Len(labeledDescriptors) |->
         [label |-> labeledDescriptors[i].label,
          descriptors |-> labeledDescriptors[i].descriptors]],
    distanceThreshold |-> IF threshold = None THEN DefaultThreshold ELSE threshold[1] ]

\* Least distance from the query to the descriptors enrolled under a label.
MinOver(S) == CHOOSE n \in S : \A m \in S : n <= m
LabelDistance(ld, queryDescriptor) ==
  MinOver({euclideanDistance(ld.descriptors[j], queryDescriptor) : j \in 1..Len(ld.descriptors)})

\* FaceMatcher.findBestMatch: the label at the least distance; of two labels
\* at the same distance the one later in the list is kept; the label is
\* 'unknown' when that distance is not below the threshold.
RECURSIVE BestFrom(_, _, _)
BestFrom(lds, queryDescriptor, i) ==
  LET curr == [label |-> lds[i].label, distance |-> LabelDistance(lds[i], queryDescriptor)]
  IN  IF i = 1 THEN curr
      ELSE LET best == BestFrom(lds, queryDescriptor, i - 1)
           IN  IF best.distance < curr.distance THEN best ELSE curr

findBestMatch(matcher, queryDescriptor) ==
  LET bestMatch == BestFrom(matcher.labeledDescriptors, queryDescriptor,
                            Len(matcher.labeledDescriptors))
  IN  IF DistLess(bestMatch.distance, matcher.distanceThreshold)
      THEN bestMatch
      ELSE [label |-> "unknown", distance |-> bestMatch.distance]

matchFace_NoUnknownCheck(matcher, descriptor) ==
  LET match == findBestMatch(matcher, descriptor)
  IN  Some([label |-> match.label, distance |-> match.distance])

matchFace(matcher, descriptor) ==
  LET match == findBestMatch(matcher, descriptor)
  IN  IF match.label = "unknown" THEN None
      ELSE Some([label |-> match.label, distance |-> match.distance])

\* A frame handed to the detector: no face in it, a face with a descriptor,
\* or a frame on which the detection pipeline fails.
NoFaceFrame == [kind |-> "noface", d |-> None]
BadFrame == [kind |-> "bad", d |-> None]
FaceFrame(d) == [kind |-> "face", d |-> Some(d)]
Frames == {NoFaceFrame, BadFrame} \cup {FaceFrame(d) : d \in Descriptors}

Threw == [kind |-> "threw", d |-> None]
Null == [kind |-> "null", d |-> None]
Detected(d) == [kind |-> "desc", d |-> Some(d)]

detectSingleFace_NullWhenUnloaded(loaded, input) ==
  IF ~loaded THEN Null
  ELSE IF input.kind = "bad" THEN Threw
  ELSE IF input.kind = "face" THEN Detected(input.d[1])
  ELSE Null

detectSingleFace(loaded, input) ==
  IF ~loaded THEN Threw
  ELSE IF input.kind = "bad" THEN Threw
  ELSE IF input.kind = "face" THEN Detected(input.d[1])
  ELSE Null

(* ------------------------- GeolocationService ------------------------- *)
\* Positions are points of one meridian.  A latitude is given by its arc
\* length from a reference point, in quarter-metres, and all longitudes are
\* equal; distances and radii are in quarter-metres as well (4 is one metre).
\* On one meridian the Haversine formula gives a = sin^2(dPhi/2),
\* c = 2 atan2(sqrt a, sqrt(1-a)) = |dPhi| and the distance R |dPhi|, which
\* is the difference of the two arc lengths.
Abs(x) == IF x < 0 THEN -x ELSE x

Geo_calculateDistance(lat1, lon1, lat2, lon2) == Abs(lat2 - lat1)

MathRound_Finite(q) == (q + 2) \div 4

\* Math.round of a length in quarter-metres: the nearest whole number of
\* metres, halves upwards; Math.round(Infinity) is Infinity.
MathRound(q) == IF q = Infinity THEN Infinity ELSE (q + 2) \div 4

checkGeofence_Exclusive(position, center, radiusMeters) ==
  LET distance == Geo_calculateDistance(position.latitude, position.longitude,
                                        center.latitude, center.longitude)
  IN  distance < radiusMeters

checkGeofence(position, center, radiusMeters) ==
  LET distance == Geo_calculateDistance(position.latitude, position.longitude,
                                        center.latitude, center.longitude)
  IN  distance <= radiusMeters

\* The loop of checkPatrolPoint after its first i iterations.
RECURSIVE NearestLoop_LastOnTies(_, _, _)
NearestLoop_LastOnTies(position, patrolPoints, i) ==
  IF i = 0 THEN [minDistance |-> Infinity, nearestPoint |-> None]
  ELSE LET prev == NearestLoop_LastOnTies(position, patrolPoints, i - 1)
           point == patrolPoints[i]
           distance == Geo_calculateDistance(position.latitude, position.longitude,
                                             point.latitude, point.longitude)
       IN  IF distance <= prev.minDistance
             THEN [minDistance |-> distance, nearestPoint |-> Some(point)]
             ELSE prev

RECURSIVE NearestLoop(_, _, _)
NearestLoop(position, patrolPoints, i) ==
  IF i = 0 THEN [minDistance |-> Infinity, nearestPoint |-> None]
  ELSE LET prev == NearestLoop(position, patrolPoints, i - 1)
           point == patrolPoints[i]
           distance == Geo_calculateDistance(position.latitude, position.longitude,
                                             point.latitude, point.longitude)
       IN  IF distance < prev.minDistance
             THEN [minDistance |-> distance, nearestPoint |-> Some(point)]
             ELSE prev

checkPatrolPoint_RoundedFlag(position, patrolPoints) ==
  LET end == NearestLoop(position, patrolPoints, Len(patrolPoints))
      isWithin == IF end.nearestPoint # None
                    THEN 4 * MathRound(end.minDistance) <= end.nearestPoint[1].radiusMeters
                    ELSE FALSE
  IN  [isWithinGeofence |-> isWithin,
       distance |-> MathRound(end.minDistance),
       nearestPoint |-> end.nearestPoint]

\* The result's distance is in whole metres.
checkPatrolPoint(position, patrolPoints) ==
  LET end == NearestLoop(position, patrolPoints, Len(patrolPoints))
      isWithin == IF end.nearestPoint # None
                    THEN end.minDistance <= end.nearestPoint[1].radiusMeters
                    ELSE FALSE
  IN  [isWithinGeofence |-> isWithin,
       distance |-> MathRound(end.minDistance),
       nearestPoint |-> end.nearestPoint]

(* ------------------------------- state -------------------------------- *)
VARIABLES
  modelsLoaded,     \* FaceApiService: let modelsLoaded
  modelsLoading,    \* FaceApiService: let modelsLoading, None (null) or Some(promise)
  mode,             \* prop: 'capture' | 'verify'
  storedDescriptor, \* prop: None or Some(descriptor string)
  guardDescriptors, \* prop: sequence of [id, descriptor]
  matchThreshold,   \* prop: None (omitted) or Some(t)
  mounted,          \* the host still renders the scanner
  step,             \* CheckIn: useState<CheckInStep>, "none" under any other host
  stream,           \* useState<MediaStream | null>: None or Some(number of the stream)
  streams,          \* the streams handed out by getUserMedia whose tracks still run
  status,           \* useState<ScanStatus>
  errorMessage,     \* useState<string>
  pollers,          \* startCamera calls sleeping in the model wait loop: their attempts
  camWait,          \* startCamera calls awaiting getUserMedia
  cams,             \* startCamera calls made so far
  scans,            \* performScan calls that reached detectSingleFace, by number:
                    \*   [state, cs (status captured by the closure), frame, det]
  timers,           \* pending setTimeout callbacks of performScan
  calls,            \* invocations of the host's callbacks, in order
  ev,               \* the last step taken: [op, before (status before it), scan]
  otpSessions,      \* utils.ts: const otpSessions, a Map from transaction id to session
  clock,            \* Date.now(), in minutes
  page,             \* the route shown when Login hosts the scanner, "none" under any other host
  logins,           \* Login: the loginWithFace calls made by handleFaceMatchFound
  guard,            \* AuthContext: useState<Guard | null>, None or Some(guard id)
  call              \* the last direct application of a service function, or the
                    \* log of the calls of loadFaceApiModels

scannerVars ==
  <<mode, storedDescriptor, guardDescriptors, matchThreshold, mounted, step, stream, streams,
    status, errorMessage, pollers, camWait, cams, scans, timers, calls, ev>>
serviceVars == <<modelsLoaded, modelsLoading>>
aadharVars == <<otpSessions, clock>>
loginVars == <<page, logins, guard>>
vars == <<serviceVars, scannerVars, aadharVars, loginVars, call>>

\* The guardDescriptors values a host passes: distinct guard ids, each with a
\* descriptor string written by descriptorToString at enrollment.
GuardLists ==
  UNION {[1..n -> {descriptorToString(e) : e \in EnrolledDescriptors}] : n \in 0..MaxGuards}
GuardDescriptorsOf(strs) ==
  [i \in 1..Len(strs) |-> [id |-> GuardIds[i], descriptor |-> strs[i]]]

NoCall == [fn |-> "none", applied |-> FALSE]

\* No OTP session has been opened: new Map().
AadharIdle == otpSessions = <<>> /\ clock = 0

\* The scanner is hosted by a page other than Login.
LoginAbsent == page = "none" /\ logins = <<>> /\ guard = None

\* The descriptor the signed-in guard enrolled (guard.faceDescriptor).
LoggedInGuardFace == descriptorToString(Axis(6))

\* CheckIn renders <FacialScanner onScanComplete={...} onCancel={...} /> while
\* its step is 'scanning': mode is left to its default 'capture' and no
\* descriptor is passed.  The other hosts pass mode and the verify props; a
\* storedDescriptor is guard?.faceDescriptor.
HostProps ==
  \/ /\ step = "scanning"
     /\ mode = "capture"
     /\ storedDescriptor = None
     /\ guardDescriptors = <<>>
     /\ matchThreshold = None
  \/ /\ step = "none"
     /\ mode \in {"capture", "verify"}
     /\ storedDescriptor \in {None, Some(LoggedInGuardFace)}
     /\ guardDescriptors \in {GuardDescriptorsOf(strs) : strs \in GuardLists}
     /\ matchThreshold \in {None, Some(3)}

Init ==
  /\ modelsLoaded = FALSE
  /\ modelsLoading = None
  /\ HostProps
  /\ mounted = TRUE
  /\ stream = None
  /\ streams = {}
  /\ status = "idle"
  /\ errorMessage = ""
  /\ pollers = <<>>
  /\ camWait = 0
  /\ cams = 0
  /\ scans = <<>>
  /\ timers = {}
  /\ calls = <<>>
  /\ ev = [op |-> "init", before |-> "idle", scan |-> 0]
  /\ AadharIdle
  /\ LoginAbsent
  /\ call = NoCall

\* setStatus / setErrorMessage: a state update of an unmounted component is dropped.
SetStatus(s, msg) ==
  /\ status' = IF mounted THEN s ELSE status
  /\ errorMessage' = IF mounted THEN msg ELSE errorMessage

Event(op, i) == ev' = [op |-> op, before |-> status, scan |-> i]

(* ------------------------- loadFaceApiModels -------------------------- *)
\* The calls of loadFaceApiModels made so far, each with the module state it
\* found and what it did: [loaded, loading, started, ret].
LoadLog == IF call.fn = "loadFaceApiModels" THEN call.log ELSE <<>>

\* Promises are numbered in the order of their creation.
NewPromise == 1 + Cardinality({k \in 1..Len(LoadLog) : LoadLog[k].started})

Logged(started, ret) ==
  call' = [fn |-> "loadFaceApiModels", applied |-> TRUE,
           log |-> Append(LoadLog, [loaded |-> modelsLoaded, loading |-> modelsLoading,
                                    started |-> started, ret |-> ret])]

loadFaceApiModels_NoInFlightCheck ==
  /\ Len(LoadLog) < MaxLoadCalls
  /\ IF modelsLoaded
       THEN /\ Logged(FALSE, None)
            /\ UNCHANGED modelsLoading
       ELSE /\ modelsLoading' = Some(NewPromise)
            /\ Logged(TRUE, Some(NewPromise))
  /\ UNCHANGED <<modelsLoaded, aadharVars, loginVars, scannerVars>>

\* A call of loadFaceApiModels.  It returns at once when the models are
\* loaded (ret = None), hands out the promise of the load in flight, or
\* starts the load and keeps its promise in modelsLoading.  (The function is
\* async: ret = Some(p) is a promise that settles as p does.)
loadFaceApiModels ==
  /\ Len(LoadLog) < MaxLoadCalls
  /\ IF modelsLoaded
       THEN /\ Logged(FALSE, None)
            /\ UNCHANGED modelsLoading
       ELSE IF modelsLoading # None
         THEN /\ Logged(FALSE, modelsLoading)
              /\ UNCHANGED modelsLoading
         ELSE /\ modelsLoading' = Some(NewPromise)
              /\ Logged(TRUE, Some(NewPromise))
  /\ UNCHANGED <<modelsLoaded, aadharVars, loginVars, scannerVars>>

\* FaceApiLoader: useEffect(() => { loadFaceApiModels()... }, []), once per page load.
FaceApiLoaderEffect == call = NoCall /\ loadFaceApiModels

\* await Promise.all([...]) resolves: modelsLoaded = true.
LoadResolved ==
  /\ modelsLoading # None /\ ~modelsLoaded
  /\ modelsLoaded' = TRUE
  /\ UNCHANGED <<modelsLoading, aadharVars, loginVars, scannerVars, call>>

\* await Promise.all([...]) rejects: modelsLoading = null.
LoadRejected ==
  /\ modelsLoading # None /\ ~modelsLoaded
  /\ modelsLoading' = None
  /\ UNCHANGED <<modelsLoaded, aadharVars, loginVars, scannerVars, call>>

areModelsLoaded == modelsLoaded

(* ---------------------------- startCamera ----------------------------- *)
\* if (stream) { stream.getTracks().forEach(track => track.stop()) }, for the
\* value of stream the running closure holds.
StopTracks(held) ==
  IF held = None THEN streams ELSE streams \ {held[1]}

\* The cleanup of the mount effect.  The effect has no dependencies, so its
\* closure is the one of the first render and holds the initial state null.
MountClosureStream == None
Cleanup == streams' = StopTracks(MountClosureStream)

\* Up to the first await: the status is reset and the call either starts
\* waiting for the models or goes on to request the camera.
startCamera(op) ==
  /\ cams < MaxCams
  /\ cams' = cams + 1
  /\ SetStatus("initializing", "")
  /\ IF ~areModelsLoaded
       THEN pollers' = Append(pollers, 0) /\ UNCHANGED camWait
       ELSE camWait' = camWait + 1 /\ UNCHANGED pollers
  /\ Event(op, 0)
  /\ UNCHANGED <<serviceVars, aadharVars, loginVars, step, stream, streams, mode, storedDescriptor, guardDescriptors, matchThreshold,
                 mounted, scans, timers, calls, call>>

\* useEffect(() => { startCamera(); ... }, [])
MountEffect == mounted /\ cams = 0 /\ startCamera("mount")

\* The Retry button, rendered while status === 'error'.
Retry == mounted /\ status = "error" /\ startCamera("retry")

RemoveAt(seq, i) == [j \in 1..(Len(seq) - 1) |-> IF j < i THEN seq[j] ELSE seq[j + 1]]

\* The wait loop without its bound on attempts.
PollWake_NoLimit(i) ==
  /\ i \in 1..Len(pollers)
  /\ LET attempts == pollers[i] + 1
     IN  IF ~areModelsLoaded
           THEN /\ pollers' = [pollers EXCEPT ![i] = attempts]
                /\ Event("poll", 0)
                /\ UNCHANGED <<status, errorMessage, camWait>>
           ELSE IF ~areModelsLoaded
             THEN /\ pollers' = RemoveAt(pollers, i)
                  /\ SetStatus("error", MsgModels)
                  /\ Event("modelsUnavailable", 0)
                  /\ UNCHANGED camWait
             ELSE /\ pollers' = RemoveAt(pollers, i)
                  /\ camWait' = camWait + 1
                  /\ Event("poll", 0)
                  /\ UNCHANGED <<status, errorMessage>>
  /\ UNCHANGED <<serviceVars, aadharVars, loginVars, step, stream, streams, mode, storedDescriptor, guardDescriptors, matchThreshold,
                 mounted, cams, scans, timers, calls, call>>

\* A 500 ms sleep of the wait loop ends: attempts++, the loop condition is
\* evaluated again, and on leaving the loop the models are checked once more.
PollWake(i) ==
  /\ i \in 1..Len(pollers)
  /\ LET attempts == pollers[i] + 1
     IN  IF ~areModelsLoaded /\ attempts < MaxPollAttempts
           THEN /\ pollers' = [pollers EXCEPT ![i] = attempts]
                /\ Event("poll", 0)
                /\ UNCHANGED <<status, errorMessage, camWait>>
           ELSE IF ~areModelsLoaded
             THEN /\ pollers' = RemoveAt(pollers, i)
                  /\ SetStatus("error", MsgModels)
                  /\ Event("modelsUnavailable", 0)
                  /\ UNCHANGED camWait
             ELSE /\ pollers' = RemoveAt(pollers, i)
                  /\ camWait' = camWait + 1
                  /\ Event("poll", 0)
                  /\ UNCHANGED <<status, errorMessage>>
  /\ UNCHANGED <<serviceVars, aadharVars, loginVars, step, stream, streams, mode, storedDescriptor, guardDescriptors, matchThreshold,
                 mounted, cams, scans, timers, calls, call>>

\* A MediaStream object is known by a number.  The number of a new stream is
\* the least one that names no stream still running or still held by the
\* component state or by a performScan call in progress.
Held(h) == IF h = None THEN {} ELSE {h[1]}
NewStream ==
  LET taken == streams \cup Held(stream)
                 \cup UNION {Held(scans[i].stream) : i \in 1..Len(scans)}
  IN  CHOOSE n \in 1..(MaxCams + 1) : n \notin taken /\ \A m \in 1..(n - 1) : m \in taken

\* getUserMedia resolves: setStream(mediaStream), setStatus('scanning').
CameraGranted ==
  /\ camWait > 0
  /\ camWait' = camWait - 1
  /\ streams' = streams \cup {NewStream}
  /\ stream' = IF mounted THEN Some(NewStream) ELSE stream
  /\ SetStatus("scanning", errorMessage)
  /\ Event("cameraGranted", 0)
  /\ UNCHANGED <<serviceVars, aadharVars, loginVars, step, mode, storedDescriptor, guardDescriptors, matchThreshold,
                 mounted, pollers, cams, scans, timers, calls, call>>

\* getUserMedia rejects.
CameraDenied ==
  /\ camWait > 0
  /\ camWait' = camWait - 1
  /\ SetStatus("error", MsgCamera)
  /\ Event("cameraDenied", 0)
  /\ UNCHANGED <<serviceVars, aadharVars, loginVars, step, stream, streams, mode, storedDescriptor, guardDescriptors, matchThreshold,
                 mounted, pollers, cams, scans, timers, calls, call>>

(* ---------------------------- performScan ----------------------------- *)
\* videoRef.current: the <video> element is rendered (and the ref attached)
\* except in the statuses that render an icon in its place.
videoRefCurrent == mounted /\ status \notin {"error", "success", "no-match", "no-face"}

InFlight == {i \in 1..Len(scans) : scans[i].state = "extracting"}

\* The Scan / Capture button, rendered in 'scanning', 'no-face' and 'no-match':
\* performScan up to its await.
PressScan ==
  /\ mounted
  /\ status \in {"scanning", "no-face", "no-match"}
  /\ IF ~videoRefCurrent \/ ~areModelsLoaded
       THEN /\ SetStatus("error", MsgUnable)
            /\ Event("scanUnable", 0)
            /\ UNCHANGED scans
       ELSE /\ Len(scans) < MaxScans
            /\ SetStatus("processing", errorMessage)
            /\ scans' = Append(scans, [state |-> "extracting", cs |-> status,
                                      stream |-> stream,
                                      frame |-> NoFaceFrame, det |-> Null])
            /\ Event("scanStart", 0)
  /\ UNCHANGED <<serviceVars, aadharVars, loginVars, step, stream, streams, mode, storedDescriptor, guardDescriptors, matchThreshold,
                 mounted, pollers, camWait, cams, timers, calls, call>>

EffectiveThreshold == IF matchThreshold = None THEN ScannerThreshold ELSE matchThreshold[1]

\* guardDescriptors.map(gd => ({ label: gd.id, descriptors: [stringToDescriptor(gd.descriptor)] }))
LabeledOf(gds) ==
  [i \in 1..Len(gds) |->
     [label |-> gds[i].id, descriptors |-> <<stringToDescriptor(gds[i].descriptor)>>]]

\* performScan without the capture branch.
Outcome_IgnoresMode(descriptor) ==
  LET result == IF Len(guardDescriptors) > 0
                  THEN matchFace(createFaceMatcher(LabeledOf(guardDescriptors),
                                                   Some(EffectiveThreshold)), descriptor)
                  ELSE None
      isMatch == /\ storedDescriptor # None
                 /\ Len(storedDescriptor[1]) > 0
                 /\ descriptorsMatch(descriptor, stringToDescriptor(storedDescriptor[1]),
                                     Some(EffectiveThreshold))
  IN  IF result # None
        THEN [status |-> "success", msg |-> errorMessage, timer |-> "complete", match |-> result]
      ELSE IF isMatch
        THEN [status |-> "success", msg |-> errorMessage, timer |-> "complete", match |-> None]
      ELSE [status |-> "no-match", msg |-> MsgNoMatch, timer |-> "nomatch", match |-> None]

\* What performScan does with an extracted descriptor: the status it sets,
\* the message, the timer it arms and the match it found.
Outcome(descriptor) ==
  IF mode = "capture"
    THEN [status |-> "success", msg |-> errorMessage, timer |-> "complete", match |-> None]
  ELSE
    LET result == IF Len(guardDescriptors) > 0
                    THEN matchFace(createFaceMatcher(LabeledOf(guardDescriptors),
                                                     Some(EffectiveThreshold)), descriptor)
                    ELSE None
        isMatch == /\ storedDescriptor # None
                   /\ Len(storedDescriptor[1]) > 0
                   /\ descriptorsMatch(descriptor, stringToDescriptor(storedDescriptor[1]),
                                       Some(EffectiveThreshold))
    IN  IF result # None
          THEN [status |-> "success", msg |-> errorMessage, timer |-> "complete", match |-> result]
        ELSE IF isMatch
          THEN [status |-> "success", msg |-> errorMessage, timer |-> "complete", match |-> None]
        ELSE [status |-> "no-match", msg |-> MsgNoMatch, timer |-> "nomatch", match |-> None]

Timer(i, kind, d, match) ==
  [scan |-> i, kind |-> kind, cs |-> scans[i].cs, descriptor |-> d, match |-> match]

\* detectSingleFace settles and performScan runs to its end.
ExtractDone(i, frame) ==
  /\ i \in InFlight
  /\ LET det == detectSingleFace(areModelsLoaded, frame)
     IN  /\ scans' = [scans EXCEPT ![i] = [state |-> "done", cs |-> @.cs, stream |-> None,
                                           frame |-> frame, det |-> det]]
         /\ IF det.kind = "threw"
              THEN SetStatus("error", MsgDetect) /\ UNCHANGED <<timers, streams>>
            ELSE IF det.kind = "null"
              THEN /\ SetStatus("no-face", MsgNoFace)
                   /\ timers' = timers \cup {Timer(i, "noface", None, None)}
                   /\ UNCHANGED streams
            ELSE LET o == Outcome(det.d[1])
                 IN  /\ SetStatus(o.status, o.msg)
                     /\ streams' = IF o.status = "success"
                                     THEN StopTracks(scans[i].stream) ELSE streams
                     /\ timers' = timers \cup {Timer(i, o.timer, det.d, o.match)}
  /\ Event("extractDone", i)
  /\ UNCHANGED <<serviceVars, aadharVars, loginVars, step, stream, mode, storedDescriptor, guardDescriptors, matchThreshold,
                 mounted, pollers, camWait, cams, calls, call>>

\* setTimeout(() => { if (status === 'no-face') { setStatus('scanning') } }, 2000):
\* status is the value the closure captured.
NoFaceTimer(t) ==
  /\ t \in timers /\ t.kind = "noface"
  /\ timers' = timers \ {t}
  /\ IF t.cs = "no-face"
       THEN SetStatus("scanning", errorMessage)
       ELSE UNCHANGED <<status, errorMessage>>
  /\ Event("noFaceTimer", 0)
  /\ UNCHANGED <<serviceVars, aadharVars, loginVars, step, stream, streams, mode, storedDescriptor, guardDescriptors, matchThreshold,
                 mounted, pollers, camWait, cams, scans, calls, call>>

\* setTimeout(() => { setStatus('scanning') }, 2500)
NoMatchTimer(t) ==
  /\ t \in timers /\ t.kind = "nomatch"
  /\ timers' = timers \ {t}
  /\ SetStatus("scanning", errorMessage)
  /\ Event("noMatchTimer", 0)
  /\ UNCHANGED <<serviceVars, aadharVars, loginVars, step, stream, streams, mode, storedDescriptor, guardDescriptors, matchThreshold,
                 mounted, pollers, camWait, cams, scans, calls, call>>

CallbackMatch(t) ==
  [fn |-> "onMatchFound", success |-> TRUE, descriptor |-> None, match |-> t.match, scan |-> t.scan]
CallbackComplete(t) ==
  [fn |-> "onScanComplete", success |-> TRUE, descriptor |-> t.descriptor, match |-> None,
   scan |-> t.scan]
CallbackCancel ==
  [fn |-> "onCancel", success |-> FALSE, descriptor |-> None, match |-> None, scan |-> 0]

\* setTimeout(() => { onMatchFound?.(...); onScanComplete(true, descriptor) }, 1000);
\* every host closes the scanner in its onScanComplete handler, and CheckIn's
\* handleScanComplete(true) starts with setStep('submitting').  Login's
\* onMatchFound handler, handleFaceMatchFound, calls loginWithFace(guardId)
\* and awaits its result.
CompleteTimer(t) ==
  /\ t \in timers /\ t.kind = "complete"
  /\ timers' = timers \ {t}
  /\ calls' = IF t.match # None
                THEN calls \o <<CallbackMatch(t), CallbackComplete(t)>>
                ELSE Append(calls, CallbackComplete(t))
  /\ mounted' = FALSE
  /\ Cleanup
  /\ step' = IF step = "none" THEN step ELSE "submitting"
  /\ logins' = IF page # "none" /\ t.match # None
                 THEN Append(logins, [guardId |-> t.match[1].label, scan |-> t.scan,
                                      state |-> "pending"])
                 ELSE logins
  /\ Event("complete", 0)
  /\ UNCHANGED <<serviceVars, aadharVars, page, guard, stream, mode, storedDescriptor, guardDescriptors, matchThreshold,
                 status, errorMessage, pollers, camWait, cams, scans, call>>

\* The Cancel button; every host closes the scanner in its onCancel handler,
\* CheckIn by setStep('confirm').
Cancel ==
  /\ mounted
  /\ status \in {"scanning", "error", "initializing", "no-face", "no-match"}
  /\ calls' = Append(calls, CallbackCancel)
  /\ mounted' = FALSE
  /\ Cleanup
  /\ step' = IF step = "none" THEN step ELSE "confirm"
  /\ Event("cancel", 0)
  /\ UNCHANGED <<serviceVars, aadharVars, loginVars, stream, mode, storedDescriptor, guardDescriptors, matchThreshold,
                 status, errorMessage, pollers, camWait, cams, scans, timers, call>>

\* CheckIn.handleScanComplete after setStep('submitting'): the position is
\* read, the attendance is posted to /api/attendance/clock-in, and the step
\* becomes 'success', or 'confirm' when the request failed.
ClockIn(ok) ==
  /\ step = "submitting"
  /\ step' = IF ok THEN "success" ELSE "confirm"
  /\ UNCHANGED <<serviceVars, aadharVars, loginVars, mode, storedDescriptor, guardDescriptors, matchThreshold,
                 mounted, stream, streams, status, errorMessage, pollers, camWait, cams,
                 scans, timers, calls, ev, call>>

\* The frames the camera shows during a scanner session.
ScanFrames == {NoFaceFrame, BadFrame} \cup {FaceFrame(d) : d \in {Axis(0), Axis(3)}}

Next ==
  \/ FaceApiLoaderEffect
  \/ LoadResolved
  \/ LoadRejected
  \/ MountEffect
  \/ Retry
  \/ \E i \in 1..MaxCams : PollWake(i)
  \/ CameraGranted
  \/ CameraDenied
  \/ PressScan
  \/ \E i \in 1..MaxScans, frame \in ScanFrames : ExtractDone(i, frame)
  \/ \E t \in timers : NoFaceTimer(t)
  \/ \E t \in timers : NoMatchTimer(t)
  \/ \E t \in timers : CompleteTimer(t)
  \/ Cancel
  \/ \E ok \in BOOLEAN : ClockIn(ok)

Spec == Init /\ [][Next]_vars

TypeOK ==
  /\ status \in Statuses
  /\ camWait \in 0..MaxCams
  /\ Len(scans) <= MaxScans

(* ------------- direct applications of the service functions ----------- *)
SeqsUpTo(S, n) == UNION {[1..k -> S] : k \in 1..n}
\* Labeled descriptors as the scanner builds them: one label per guard id.
LabeledInputs ==
  {[i \in 1..Len(ds) |-> [label |-> GuardIds[i], descriptors |-> ds[i]]] :
     ds \in SeqsUpTo(SeqsUpTo(EnrolledDescriptors, MaxPerLabel), MaxLabels)}
ThresholdArgs == {None} \cup {Some(t) : t \in Thresholds}

\* The arguments of a pending application; res is filled in by the application.
MatchFaceInputs ==
  [fn : {"matchFace"}, applied : {FALSE}, labeledDescriptors : LabeledInputs,
   threshold : ThresholdArgs, descriptor : Descriptors, res : {None}]
DescriptorsMatchInputs ==
  [fn : {"descriptorsMatch"}, applied : {FALSE}, descriptor1 : Descriptors,
   descriptor2 : Descriptors, threshold : ThresholdArgs, res : {None}]

\* Descriptors of any length with finite components of either sign, as the
\* recognition net computes them.
FloatValues == {-3, 0, 3, 6}
RoundTripInputs ==
  [fn : {"roundTrip"}, applied : {FALSE},
   descriptor : UNION {[1..n -> FloatValues] : n \in 0..DescLen}, str : {None}, res : {None}]

FnInit ==
  /\ modelsLoaded = FALSE
  /\ modelsLoading = None
  /\ mode = "capture"
  /\ storedDescriptor = None
  /\ guardDescriptors = <<>>
  /\ matchThreshold = None
  /\ mounted = FALSE
  /\ step = "none"
  /\ stream = None
  /\ streams = {}
  /\ status = "idle"
  /\ errorMessage = ""
  /\ pollers = <<>>
  /\ camWait = 0
  /\ cams = 0
  /\ scans = <<>>
  /\ timers = {}
  /\ calls = <<>>
  /\ ev = [op |-> "init", before |-> "idle", scan |-> 0]
  /\ AadharIdle
  /\ LoginAbsent
  /\ call \in MatchFaceInputs \cup DescriptorsMatchInputs \cup RoundTripInputs

\* matchFace(createFaceMatcher(labeledDescriptors, threshold), descriptor)
ApplyMatchFace ==
  /\ call.fn = "matchFace" /\ ~call.applied
  /\ call' = [call EXCEPT
                !.applied = TRUE,
                !.res = matchFace(createFaceMatcher(call.labeledDescriptors, call.threshold),
                                  call.descriptor)]
  /\ UNCHANGED <<serviceVars, aadharVars, loginVars, scannerVars>>

\* descriptorsMatch(descriptor1, descriptor2, threshold)
ApplyDescriptorsMatch ==
  /\ call.fn = "descriptorsMatch" /\ ~call.applied
  /\ call' = [call EXCEPT
                !.applied = TRUE,
                !.res = descriptorsMatch(call.descriptor1, call.descriptor2, call.threshold)]
  /\ UNCHANGED <<serviceVars, aadharVars, loginVars, scannerVars>>

\* stringToDescriptor(descriptorToString(descriptor))
ApplyRoundTrip ==
  /\ call.fn = "roundTrip" /\ ~call.applied
  /\ LET str == descriptorToString(call.descriptor)
     IN  call' = [call EXCEPT
                    !.applied = TRUE,
                    !.str = Some(str),
                    !.res = Some(stringToDescriptor(str))]
  /\ UNCHANGED <<serviceVars, aadharVars, loginVars, scannerVars>>

FnNext ==
  \/ ApplyMatchFace
  \/ ApplyDescriptorsMatch
  \/ ApplyRoundTrip

FnSpec == FnInit /\ [][FnNext]_vars

(* ------------------- callers of loadFaceApiModels --------------------- *)
\* No scanner is rendered.
ScannerAbsent ==
  /\ AadharIdle
  /\ LoginAbsent
  /\ mode = "capture"
  /\ storedDescriptor = None
  /\ guardDescriptors = <<>>
  /\ matchThreshold = None
  /\ mounted = FALSE
  /\ step = "none"
  /\ stream = None
  /\ streams = {}
  /\ status = "idle"
  /\ errorMessage = ""
  /\ pollers = <<>>
  /\ camWait = 0
  /\ cams = 0
  /\ scans = <<>>
  /\ timers = {}
  /\ calls = <<>>
  /\ ev = [op |-> "init", before |-> "idle", scan |-> 0]

LoadInit ==
  /\ modelsLoaded = FALSE
  /\ modelsLoading = None
  /\ ScannerAbsent
  /\ call = NoCall

\* Any number of callers, at any time.
LoadNext ==
  \/ loadFaceApiModels
  \/ LoadResolved
  \/ LoadRejected

LoadSpec == LoadInit /\ [][LoadNext]_vars

(* --------------- direct applications of the geofence checks ----------- *)
Arcs == 0..MaxArc
\* One metre behind, zero and one metre: a radius comes from the site or
\* checkpoint record unchecked.
Radii == {-4, 0, 4}
PointIds == <<"p1", "p2", "p3", "p4">>
GeoPositions == [latitude : Arcs, longitude : {0}]
PatrolPointLists ==
  {[i \in 1..Len(ps) |-> [id |-> PointIds[i], latitude |-> ps[i].latitude,
                          longitude |-> 0, radiusMeters |-> ps[i].radiusMeters]] :
     ps \in UNION {[1..n -> [latitude : Arcs, radiusMeters : Radii]] : n \in 0..MaxPoints}}

CheckGeofenceInputs ==
  [fn : {"checkGeofence"}, applied : {FALSE}, position : GeoPositions,
   center : GeoPositions, radiusMeters : Radii, res : {None}]
CheckPatrolPointInputs ==
  [fn : {"checkPatrolPoint"}, applied : {FALSE}, position : GeoPositions,
   patrolPoints : PatrolPointLists, res : {None}]

\* How an application ended: neither function has a throw statement.
Returned(v) == [kind |-> "returned", value |-> v]

GeoInit ==
  /\ modelsLoaded = FALSE
  /\ modelsLoading = None
  /\ ScannerAbsent
  /\ call \in CheckGeofenceInputs \cup CheckPatrolPointInputs

\* checkGeofence(position, center, radiusMeters)
ApplyCheckGeofence ==
  /\ call.fn = "checkGeofence" /\ ~call.applied
  /\ call' = [call EXCEPT
                !.applied = TRUE,
                !.res = Returned(checkGeofence(call.position, call.center, call.radiusMeters))]
  /\ UNCHANGED <<serviceVars, aadharVars, loginVars, scannerVars>>

\* checkPatrolPoint(position, patrolPoints)
ApplyCheckPatrolPoint ==
  /\ call.fn = "checkPatrolPoint" /\ ~call.applied
  /\ call' = [call EXCEPT
                !.applied = TRUE,
                !.res = Returned(checkPatrolPoint(call.position, call.patrolPoints))]
  /\ UNCHANGED <<serviceVars, aadharVars, loginVars, scannerVars>>

GeoNext ==
  \/ ApplyCheckGeofence
  \/ ApplyCheckPatrolPoint

GeoSpec == GeoInit /\ [][GeoNext]_vars

(* ------------------------ AuthContext.loginWithFace ------------------- *)
DEMO_FALLBACK_GUARD == "demo-guard-1"

\* What the server does with the login request: it cannot be reached, it
\* answers that the login failed, or it answers with the guard's record.
Servers == {"unreachable", "rejected", "accepted"}

\* The guard the server answers with: the one named in the face-login
\* request, or the owner of the credentials of the legacy request.
ServerGuard(guardId) ==
  IF guardId # None /\ guardId[1] # "" THEN guardId[1] ELSE "rajesh.kumar@guardwise.com"

ApiThrew == [kind |-> "threw", success |-> FALSE, guard |-> None]
ApiFailed == [kind |-> "returned", success |-> FALSE, guard |-> None]
ApiGuard(g) == [kind |-> "returned", success |-> TRUE, guard |-> Some(g)]

\* The ways await api.post(...) can end, as loginWithFace tells them apart:
\* an exception, or a response with its success flag and data.guard.  A
\* failure of either kind surfaces as an exception or as success: false.
ApiPostOutcomes(server, guardId) ==
  IF server = "accepted" THEN {ApiGuard(ServerGuard(guardId))} ELSE {ApiThrew, ApiFailed}

\* loginWithFace whose face-login branch also falls back to the demo guard.
loginWithFace_FallbackEverywhere(guardId, response, guardBefore) ==
  LET answered == response.kind = "returned" /\ response.success /\ response.guard # None
  IN  IF answered
        THEN [ret |-> TRUE, guard |-> response.guard]
        ELSE [ret |-> TRUE, guard |-> Some(DEMO_FALLBACK_GUARD)]

\* loginWithFace(guardId) given the outcome of its api.post and the guard
\* signed in before: the value returned and the guard signed in afterwards.
loginWithFace(guardId, response, guardBefore) ==
  LET answered == response.kind = "returned" /\ response.success /\ response.guard # None
  IN  IF guardId # None /\ guardId[1] # ""
        THEN IF answered
               THEN [ret |-> TRUE, guard |-> response.guard]
               ELSE [ret |-> FALSE, guard |-> guardBefore]
        ELSE IF answered
               THEN [ret |-> TRUE, guard |-> response.guard]
               ELSE [ret |-> TRUE, guard |-> Some(DEMO_FALLBACK_GUARD)]

GuardIdArgs == {None, Some("")} \cup {Some(GuardIds[i]) : i \in 1..MaxGuards + 2}
LoginWithFaceInputs ==
  [fn : {"loginWithFace"}, applied : {FALSE}, guardId : GuardIdArgs, server : Servers,
   guardBefore : {None} \cup {Some(GuardIds[i]) : i \in 1..MaxGuards + 1},
   response : {None}, res : {None}]

AuthInit ==
  /\ modelsLoaded = FALSE
  /\ modelsLoading = None
  /\ ScannerAbsent
  /\ call \in LoginWithFaceInputs

ApplyLoginWithFace ==
  /\ call.fn = "loginWithFace" /\ ~call.applied
  /\ \E response \in ApiPostOutcomes(call.server, call.guardId) :
       call' = [call EXCEPT
                  !.applied = TRUE,
                  !.response = Some(response),
                  !.res = Some(loginWithFace(call.guardId, response, call.guardBefore))]
  /\ UNCHANGED <<serviceVars, aadharVars, loginVars, scannerVars>>

AuthNext == ApplyLoginWithFace

AuthSpec == AuthInit /\ [][AuthNext]_vars

(* ------------------------ the face-login flow ------------------------- *)
\* The guards whose descriptors /auth/face-descriptors returns to Login.
LoginGuardLists ==
  UNION {[1..n -> {descriptorToString(e) : e \in EnrolledDescriptors}] : n \in 1..MaxGuards + 1}

\* Login opens the scanner only when it has descriptors, as
\* <FacialScanner mode="verify" guardDescriptors={...} matchThreshold={0.6} ... />.
LoginInit ==
  /\ modelsLoaded = FALSE
  /\ modelsLoading = None
  /\ step = "none"
  /\ mode = "verify"
  /\ storedDescriptor = None
  /\ guardDescriptors \in {GuardDescriptorsOf(strs) : strs \in LoginGuardLists}
  /\ matchThreshold = Some(6)
  /\ mounted = TRUE
  /\ stream = None
  /\ streams = {}
  /\ status = "idle"
  /\ errorMessage = ""
  /\ pollers = <<>>
  /\ camWait = 0
  /\ cams = 0
  /\ scans = <<>>
  /\ timers = {}
  /\ calls = <<>>
  /\ ev = [op |-> "init", before |-> "idle", scan |-> 0]
  /\ AadharIdle
  /\ page = "login"
  /\ logins = <<>>
  /\ guard = None
  /\ call = NoCall

\* handleFaceMatchFound after await loginWithFace(guardId): the call settles
\* having set the guard or not, and the page navigates when it returned true.
LoginSettled(k, server) ==
  /\ k \in 1..Len(logins) /\ logins[k].state = "pending"
  /\ \E response \in ApiPostOutcomes(server, Some(logins[k].guardId)) :
       LET r == loginWithFace(Some(logins[k].guardId), response, guard)
       IN  /\ guard' = r.guard
           /\ logins' = [logins EXCEPT ![k].state = IF r.ret THEN "true" ELSE "false"]
           /\ page' = IF r.ret THEN "dashboard" ELSE page
  /\ UNCHANGED <<serviceVars, aadharVars, scannerVars, call>>

\* The frames the camera shows while a guard signs in.
LoginFrames == {NoFaceFrame, BadFrame} \cup {FaceFrame(d) : d \in {Axis(0), Axis(6)}}

LoginNext ==
  \/ FaceApiLoaderEffect
  \/ LoadResolved
  \/ LoadRejected
  \/ MountEffect
  \/ Retry
  \/ \E i \in 1..MaxCams : PollWake(i)
  \/ CameraGranted
  \/ CameraDenied
  \/ PressScan
  \/ \E i \in 1..MaxScans, frame \in LoginFrames : ExtractDone(i, frame)
  \/ \E t \in timers : NoFaceTimer(t)
  \/ \E t \in timers : NoMatchTimer(t)
  \/ \E t \in timers : CompleteTimer(t)
  \/ Cancel
  \/ \E k \in 1..MaxScans, server \in Servers : LoginSettled(k, server)

LoginSpec == LoginInit /\ [][LoginNext]_vars

(* ---------------------- the mock Aadhar OTP service ------------------- *)
\* otpSessions.get(transactionId): the session, or None (undefined) for an id
\* that was never issued or whose session was deleted.
OtpGet(transactionId) ==
  IF transactionId \in 1..Len(otpSessions) THEN otpSessions[transactionId] ELSE None

\* The OTP strings generateOTP can return and the Aadhar numbers a form sends.
Otps == {"483920", "715064"}
AadharNumbers == {"1234 5678 9012", "12345"}
\* aadharNumber.replace(/\D/g, '').length
CleanedLength(aadharNumber) == IF aadharNumber = "1234 5678 9012" THEN 12 ELSE 5

AadharCall(fn, transactionId, res) ==
  call' = [fn |-> fn, applied |-> TRUE, transactionId |-> transactionId, at |-> clock,
           session |-> OtpGet(transactionId), res |-> res]

\* requestAadharOTP after its delay: a malformed number is refused, otherwise
\* a session with a fresh transaction id is stored, expiring in 10 minutes.
requestAadharOTP(aadharNumber, otp) ==
  /\ Len(otpSessions) < MaxSessions
  /\ IF CleanedLength(aadharNumber) # 12
       THEN /\ UNCHANGED otpSessions
            /\ AadharCall("requestAadharOTP", 0, [success |-> FALSE, transactionId |-> 0])
       ELSE LET transactionId == Len(otpSessions) + 1
            IN  /\ otpSessions' =
                     Append(otpSessions, Some([otp |-> otp, expiresAt |-> clock + OtpLifetime]))
                /\ AadharCall("requestAadharOTP", transactionId,
                              [success |-> TRUE, transactionId |-> transactionId])
  /\ UNCHANGED <<serviceVars, scannerVars, loginVars, clock>>

\* verifyAadharOTP after its delay.
verifyAadharOTP(transactionId, otp) ==
  LET session == OtpGet(transactionId)
  IN  /\ IF session = None
           THEN /\ UNCHANGED otpSessions
                /\ AadharCall("verifyAadharOTP", transactionId, [success |-> FALSE, verified |-> FALSE])
           ELSE IF clock > session[1].expiresAt
             THEN /\ otpSessions' = [otpSessions EXCEPT ![transactionId] = None]
                  /\ AadharCall("verifyAadharOTP", transactionId, [success |-> FALSE, verified |-> FALSE])
             ELSE IF session[1].otp # otp
               THEN /\ UNCHANGED otpSessions
                    /\ AadharCall("verifyAadharOTP", transactionId, [success |-> FALSE, verified |-> FALSE])
               ELSE /\ otpSessions' = [otpSessions EXCEPT ![transactionId] = None]
                    /\ AadharCall("verifyAadharOTP", transactionId, [success |-> TRUE, verified |-> TRUE])
      /\ UNCHANGED <<serviceVars, scannerVars, loginVars, clock>>

\* resendAadharOTP after its delay: the session found gets a new OTP and a
\* new expiry time.
resendAadharOTP(transactionId, newOtp) ==
  LET session == OtpGet(transactionId)
  IN  /\ IF session = None
           THEN /\ UNCHANGED otpSessions
                /\ AadharCall("resendAadharOTP", transactionId, [success |-> FALSE, transactionId |-> 0])
           ELSE /\ otpSessions' = [otpSessions EXCEPT ![transactionId] =
                                     Some([otp |-> newOtp, expiresAt |-> clock + OtpLifetime])]
                /\ AadharCall("resendAadharOTP", transactionId,
                              [success |-> TRUE, transactionId |-> transactionId])
      /\ UNCHANGED <<serviceVars, scannerVars, loginVars, clock>>

\* A minute passes.
Tick ==
  /\ clock < MaxClock
  /\ clock' = clock + 1
  /\ UNCHANGED <<serviceVars, scannerVars, loginVars, otpSessions, call>>

AadharInit ==
  /\ modelsLoaded = FALSE
  /\ modelsLoading = None
  /\ ScannerAbsent
  /\ call = NoCall

\* The transaction ids a caller may send: those issued and one never issued.
AadharNext ==
  \/ \E aadharNumber \in AadharNumbers, otp \in Otps : requestAadharOTP(aadharNumber, otp)
  \/ \E transactionId \in 1..MaxSessions + 1, otp \in Otps : verifyAadharOTP(transactionId, otp)
  \/ \E transactionId \in 1..MaxSessions + 1, otp \in Otps : resendAadharOTP(transactionId, otp)
  \/ Tick

AadharSpec == AadharInit /\ [][AadharNext]_vars

(* ------------------------------- claims ------------------------------- *)
ThresholdOf(threshold) == IF threshold = None THEN 6 ELSE threshold[1]
Below(a, b, t) == SumSq(a, b, DescLen) < t * t

\* C1: matching a probe against a labeled set returns no match exactly when
\* every enrolled descriptor of every label is at a distance >= the threshold
\* from the probe, and a match when some label is at a distance < the threshold.
C1_NoMatchIffAllFar ==
  (call.fn = "matchFace" /\ call.applied) =>
    LET lds == call.labeledDescriptors
        t == ThresholdOf(call.threshold)
        near == \E i \in 1..Len(lds) : \E j \in 1..Len(lds[i].descriptors) :
                   Below(lds[i].descriptors[j], call.descriptor, t)
    IN  (call.res # None) <=> near

\* A probe exactly on the threshold from its nearest enrolled descriptor is rejected.
C1_Witness ==
  /\ call.fn = "matchFace" /\ call.applied
  /\ call.res = None
  /\ Len(call.labeledDescriptors) = 2
  /\ \E i \in 1..2 :
       SumSq(call.labeledDescriptors[i].descriptors[1], call.descriptor, DescLen)
         = ThresholdOf(call.threshold) * ThresholdOf(call.threshold)

LeastDistance(ld, probe) ==
  CHOOSE n \in {SumSq(ld.descriptors[j], probe, DescLen) : j \in 1..Len(ld.descriptors)} :
    \A j \in 1..Len(ld.descriptors) : n <= SumSq(ld.descriptors[j], probe, DescLen)

\* C2: a match names a label whose least distance to the probe is the least
\* among all labels of the set, and reports that distance.
C2_BestLabelAndDistance ==
  (call.fn = "matchFace" /\ call.applied /\ call.res # None) =>
    LET lds == call.labeledDescriptors
        probe == call.descriptor
    IN  \E i \in 1..Len(lds) :
          /\ lds[i].label = call.res[1].label
          /\ LeastDistance(lds[i], probe) = call.res[1].distance
          /\ \A k \in 1..Len(lds) : LeastDistance(lds[i], probe) <= LeastDistance(lds[k], probe)

\* The winner is nearest through the second descriptor enrolled under it.
C2_Witness ==
  /\ call.fn = "matchFace" /\ call.applied
  /\ call.res # None
  /\ Len(call.labeledDescriptors) = 2
  /\ \E i \in 1..2 :
       LET ld == call.labeledDescriptors[i]
           other == call.labeledDescriptors[3 - i]
       IN  /\ ld.label = call.res[1].label
           /\ other.label # ld.label
           /\ Len(ld.descriptors) = 2
           /\ SumSq(ld.descriptors[2], call.descriptor, DescLen) = call.res[1].distance
           /\ SumSq(ld.descriptors[1], call.descriptor, DescLen) > call.res[1].distance
           /\ LeastDistance(other, call.descriptor) > call.res[1].distance

\* C4: descriptorsMatch(a, b, t) is true exactly when distance(a, b) < t, with
\* t = 0.6 when the threshold is omitted.
C4_MatchIffBelowThreshold ==
  (call.fn = "descriptorsMatch" /\ call.applied) =>
    (call.res <=> Below(call.descriptor1, call.descriptor2, ThresholdOf(call.threshold)))

\* The threshold is omitted and the distance is exactly 0.6: no match.
C4_Witness ==
  /\ call.fn = "descriptorsMatch" /\ call.applied
  /\ call.threshold = None
  /\ SumSq(call.descriptor1, call.descriptor2, DescLen) = 36
  /\ call.res = FALSE

\* C11: a call of loadFaceApiModels made while a load is in flight is handed
\* the promise of that load and starts no load of its own; a call made after
\* a successful load returns at once and starts no load.
C11_SingleLoadInFlight ==
  \A k \in 1..Len(LoadLog) :
    LET c == LoadLog[k]
    IN  /\ c.loaded => (c.ret = None /\ ~c.started)
        /\ (~c.loaded /\ c.loading # None) => (c.ret = c.loading /\ ~c.started)
        /\ (~c.loaded /\ c.loading = None) => (c.started /\ c.ret # None)

\* Two calls joined the load started by a third, and a fourth came after it succeeded.
C11_Witness ==
  /\ Len(LoadLog) = 4
  /\ LoadLog[1].started
  /\ \A k \in 2..3 : ~LoadLog[k].started /\ LoadLog[k].ret = LoadLog[1].ret
  /\ LoadLog[4].loaded /\ LoadLog[4].ret = None /\ ~LoadLog[4].started

Away(point) == Abs(point.latitude - call.position.latitude)
PatrolChecked == call.fn = "checkPatrolPoint" /\ call.applied

\* C12: checkPatrolPoint returns as nearestPoint the point at the least
\* distance from the position, and of several points at that least distance
\* the first of the list.
C12_NearestFirstOnTies ==
  (PatrolChecked /\ Len(call.patrolPoints) > 0) =>
    LET ps == call.patrolPoints
    IN  /\ call.res.value.nearestPoint # None
        /\ \E i \in 1..Len(ps) :
             /\ call.res.value.nearestPoint[1] = ps[i]
             /\ \A k \in 1..Len(ps) : Away(ps[i]) <= Away(ps[k])
             /\ \A k \in 1..(i - 1) : Away(ps[k]) > Away(ps[i])

\* Two points at the same least distance on either side: the first is returned.
C12_Witness ==
  /\ PatrolChecked /\ Len(call.patrolPoints) = 2
  /\ call.patrolPoints[1].latitude # call.patrolPoints[2].latitude
  /\ Away(call.patrolPoints[1]) = Away(call.patrolPoints[2])
  /\ call.res.value.nearestPoint = Some(call.patrolPoints[1])

\* C13 as stated: isWithinGeofence is true exactly when the distance reported
\* in the result is <= the nearest point's radiusMeters.
C13_FlagAgreesWithReportedDistance ==
  (PatrolChecked /\ call.res.value.nearestPoint # None) =>
    (call.res.value.isWithinGeofence <=>
       4 * call.res.value.distance <= call.res.value.nearestPoint[1].radiusMeters)

\* C13, amended: isWithinGeofence is true exactly when the least distance, as
\* computed and before rounding, is <= the nearest point's own radiusMeters;
\* the reported distance is that least distance rounded to whole metres.
C13_FlagFromUnroundedDistance ==
  (PatrolChecked /\ call.res.value.nearestPoint # None) =>
    LET n == call.res.value.nearestPoint[1]
    IN  /\ call.res.value.isWithinGeofence <=> (Away(n) <= n.radiusMeters)
        /\ 4 * call.res.value.distance - 2 <= Away(n)
        /\ Away(n) < 4 * call.res.value.distance + 2

\* The nearest point is 1.25 m away with a radius of 1 m: outside, reported as 1 m.
C13_Witness ==
  /\ PatrolChecked /\ call.res.value.nearestPoint # None
  /\ Away(call.res.value.nearestPoint[1]) = 5
  /\ call.res.value.nearestPoint[1].radiusMeters = 4
  /\ call.res.value.distance = 1
  /\ ~call.res.value.isWithinGeofence

\* C14: on an empty list checkPatrolPoint returns no nearest point,
\* isWithinGeofence false and the distance Infinity.
C14_EmptyListSentinel ==
  (PatrolChecked /\ Len(call.patrolPoints) = 0) =>
    call.res = Returned([isWithinGeofence |-> FALSE, distance |-> Infinity,
                         nearestPoint |-> None])

C14_Witness ==
  /\ PatrolChecked /\ call.patrolPoints = <<>>
  /\ call.res.value.nearestPoint = None /\ call.res.value.distance = Infinity

\* C15: checkGeofence(position, center, r) is true exactly when the distance
\* from position to center is <= r.
C15_InclusiveBoundary ==
  (call.fn = "checkGeofence" /\ call.applied) =>
    (call.res.value <=> Abs(call.center.latitude - call.position.latitude) <= call.radiusMeters)

\* A position exactly one radius away from the center is inside.
C15_Witness ==
  /\ call.fn = "checkGeofence" /\ call.applied
  /\ call.radiusMeters > 0
  /\ Abs(call.center.latitude - call.position.latitude) = call.radiusMeters
  /\ call.res.value = TRUE

\* C16: a proximity check given a negative radius ends with an error and
\* returns no within/outside answer.
C16_InvalidInputsRejected ==
  /\ (call.fn = "checkGeofence" /\ call.applied /\ call.radiusMeters < 0) =>
       call.res.kind = "threw"
  /\ (PatrolChecked /\ \E i \in 1..Len(call.patrolPoints) :
                          call.patrolPoints[i].radiusMeters < 0) =>
       call.res.kind = "threw"

(* --------------------------- login claims ----------------------------- *)
\* C18: loginWithFace signs the demo guard in only when the server cannot be
\* reached, never when the server answered.
C18_DemoGuardOnlyOffline ==
  (call.fn = "loginWithFace" /\ call.applied
     /\ call.res[1].guard = Some(DEMO_FALLBACK_GUARD)) =>
    call.server = "unreachable"

(* ------------------------- scanner claims ----------------------------- *)
\* The descriptor is strictly nearer than matchThreshold to some entry of
\* guardDescriptors or to storedDescriptor.
Near(d, str, t) ==
  LET e == stringToDescriptor(str) IN SumSq(d, e, DescLen) < t * t
VerifyMatches(d) ==
  LET t == IF matchThreshold = None THEN 6 ELSE matchThreshold[1]
  IN  \/ \E i \in 1..Len(guardDescriptors) : Near(d, guardDescriptors[i].descriptor, t)
      \/ storedDescriptor # None /\ Near(d, storedDescriptor[1], t)
OnThreshold(d) ==
  LET t == IF matchThreshold = None THEN 6 ELSE matchThreshold[1]
  IN  \/ \E i \in 1..Len(guardDescriptors) :
           SumSq(d, stringToDescriptor(guardDescriptors[i].descriptor), DescLen) = t * t
      \/ storedDescriptor # None
           /\ SumSq(d, stringToDescriptor(storedDescriptor[1]), DescLen) = t * t

Extracted(i) == scans[i].state = "done" /\ scans[i].det.kind = "desc"
JustExtracted == ev.op = "extractDone" /\ mounted /\ Extracted(ev.scan)

\* C3: in verify mode the scanner enters 'success' and calls
\* onScanComplete(true, d) only for a descriptor d strictly nearer than
\* matchThreshold to a supplied descriptor; otherwise the attempt ends in 'no-match'.
C3_VerifySuccessOnlyOnMatch ==
  mode = "verify" =>
    /\ \A k \in 1..Len(calls) :
         calls[k].fn = "onScanComplete" =>
           calls[k].success /\ VerifyMatches(calls[k].descriptor[1])
    /\ \A t \in timers : t.kind = "complete" => VerifyMatches(t.descriptor[1])
    /\ (mounted /\ status = "success" /\ ev.before # "success") => ev.op = "extractDone"
    /\ JustExtracted =>
         LET d == scans[ev.scan].det.d[1]
         IN  status = IF VerifyMatches(d) THEN "success" ELSE "no-match"

\* A descriptor exactly on the threshold was rejected and a later one accepted.
C3_Witness ==
  /\ mode = "verify"
  /\ \E i \in 1..Len(scans) :
       Extracted(i) /\ OnThreshold(scans[i].det.d[1]) /\ ~VerifyMatches(scans[i].det.d[1])
  /\ \E k \in 1..Len(calls) : calls[k].fn = "onScanComplete" /\ calls[k].success

\* C5: at most one extraction is in flight in a scanner instance.
C5_SingleExtractionInFlight == Cardinality(InFlight) <= 1

\* C6: the status leaves 'error' only by the Retry button.
C6_ErrorUntilRetry ==
  (mounted /\ ev.before = "error" /\ status # "error") => ev.op = "retry"

\* C7: whenever the scanner shows a fatal error its caller has been called
\* back with onScanComplete(false).
C7_FatalReportedToCaller ==
  (mounted /\ status = "error") =>
    \E k \in 1..Len(calls) : calls[k].fn = "onScanComplete" /\ ~calls[k].success

\* C8: a frame without a face gives the null result and status 'no-face';
\* unloaded models give an exception from detectSingleFace and status 'error'.
C8_NoFaceIsNotAnError ==
  /\ \A i \in 1..Len(scans) :
       (scans[i].state = "done" /\ scans[i].frame.kind = "noface") => scans[i].det = Null
  /\ (ev.op = "extractDone" /\ mounted /\ scans[ev.scan].det = Null) => status = "no-face"
  /\ (ev.op \in {"modelsUnavailable", "scanUnable"} /\ mounted) => status = "error"
  /\ \A f \in Frames : detectSingleFace(FALSE, f) = Threw
  /\ \A f \in Frames : f.kind = "noface" => detectSingleFace(TRUE, f) = Null

C8_Witness ==
  /\ ev.op = "extractDone" /\ mounted
  /\ scans[ev.scan].frame.kind = "noface"
  /\ status = "no-face"

\* C9: when the retry timer of a no-face result fires while the status is
\* 'no-face', the status becomes 'scanning'.
C9_NoFaceAutoRetry ==
  (ev.op = "noFaceTimer" /\ mounted /\ ev.before = "no-face") => status = "scanning"

\* C10: in capture mode a scan that extracts a descriptor d sets 'success' and
\* leads to onScanComplete(true, d) and to nothing else: no match is attempted
\* and onMatchFound is not called, whatever the verify props are.
C10_CaptureReturnsDescriptor ==
  mode = "capture" =>
    /\ JustExtracted => status = "success"
    /\ status # "no-match"
    /\ \A i \in 1..Len(scans) :
         Extracted(i) =>
           \/ \E t \in timers :
                /\ t.scan = i /\ t.kind = "complete"
                /\ t.descriptor = scans[i].det.d /\ t.match = None
           \/ \E k \in 1..Len(calls) :
                /\ calls[k].fn = "onScanComplete" /\ calls[k].scan = i
                /\ calls[k].success /\ calls[k].descriptor = scans[i].det.d
    /\ \A k \in 1..Len(calls) :
         /\ calls[k].fn # "onMatchFound"
         /\ calls[k].fn = "onScanComplete" =>
              /\ calls[k].success
              /\ Extracted(calls[k].scan)
              /\ calls[k].descriptor = scans[calls[k].scan].det.d

\* The descriptor was handed over although it matches none of the verify props.
C10_Witness ==
  /\ mode = "capture"
  /\ Len(guardDescriptors) > 0 /\ storedDescriptor # None
  /\ \E k \in 1..Len(calls) :
       calls[k].fn = "onScanComplete" /\ ~VerifyMatches(calls[k].descriptor[1])

\* C19: CheckIn reaches 'submitting' (and posts the clock-in) only after the
\* scanner handed over a face that matches the signed-in guard's enrolled
\* descriptor.
C19_ClockInOnlyAfterVerification ==
  step \in {"submitting", "success"} =>
    \E k \in 1..Len(calls) :
      /\ calls[k].fn = "onScanComplete" /\ calls[k].success
      /\ Near(calls[k].descriptor[1], LoggedInGuardFace, 6)

\* C20: when the scanner is closed no stream it acquired is left running,
\* and while it is open only its current stream runs.
C20_StreamsStoppedOnUnmount ==
  /\ ev.op \in {"cancel", "complete"} => streams = {}
  /\ mounted => \A n \in streams : stream = Some(n)

\* C23: a startCamera call polls for the models fewer than 10 more times
\* after any sleep, and when every call has run to its end the status is not
\* 'initializing': a call ends in 'scanning' when the models are loaded and
\* the camera was granted, and in 'error' otherwise.
C23_StartCameraEnds ==
  /\ \A i \in 1..Len(pollers) : pollers[i] < MaxPollAttempts
  /\ (mounted /\ cams > 0 /\ pollers = <<>> /\ camWait = 0) => status # "initializing"
  /\ (mounted /\ ev.op = "cameraGranted") => (status = "scanning" /\ modelsLoaded)
  /\ (mounted /\ ev.op \in {"cameraDenied", "modelsUnavailable"}) => status = "error"

\* The models never arrived: the tenth poll gave up and set 'error'.
C23_Witness ==
  /\ mounted /\ ev.op = "modelsUnavailable" /\ ev.before = "initializing"
  /\ ~modelsLoaded /\ status = "error" /\ pollers = <<>> /\ camWait = 0

\* C24: while the scanner is open the status never leaves 'success';
\* onScanComplete is called at most once, and never after onCancel.
C24_SuccessIsFinal ==
  /\ (mounted /\ ev.before = "success") => status = "success"
  /\ Cardinality({k \in 1..Len(calls) : calls[k].fn = "onScanComplete"}) <= 1
  /\ \A k, l \in 1..Len(calls) :
       (calls[k].fn = "onCancel" /\ calls[l].fn = "onScanComplete") => l < k

\* C25: pressing the scan button in 'no-face' or 'no-match' starts a detection
\* and sets 'processing'.
C25_RescanFromNoFaceOrNoMatch ==
  (mounted /\ ev.op \in {"scanStart", "scanUnable"} /\ ev.before \in {"no-face", "no-match"}) =>
    (ev.op = "scanStart" /\ status = "processing")

(* --------------------------- Aadhar OTP claims ------------------------ *)
\* C22: a call of verifyAadharOTP or resendAadharOTP made for a session whose
\* expiry time has passed does not succeed.
C22_ExpiredSessionUnusable ==
  (call.fn \in {"verifyAadharOTP", "resendAadharOTP"} /\ call.session # None
     /\ call.at > call.session[1].expiresAt)
    => ~call.res.success

(* ------------------------- face-login claims -------------------------- *)
\* The match performScan computed for scan i from the descriptor it extracted.
MatchOfScan(i) ==
  IF scans[i].state = "done" /\ scans[i].det.kind = "desc"
    THEN matchFace(createFaceMatcher(LabeledOf(guardDescriptors), Some(EffectiveThreshold)),
                   scans[i].det.d[1])
    ELSE None

\* C26: in the face-login flow every loginWithFace call carries the label the
\* face match of its scan returned and follows the onMatchFound call of that
\* scan, there is no loginWithFace call without a match, onMatchFound comes
\* right before onScanComplete(true) of the same scan, the guard signed in is
\* the guard of a loginWithFace call that returned true, and the dashboard is
\* shown only after such a call.
C26_FaceLoginFollowsMatch ==
  page # "none" =>
    /\ \A k \in 1..Len(logins) :
         /\ MatchOfScan(logins[k].scan) # None
         /\ MatchOfScan(logins[k].scan)[1].label = logins[k].guardId
         /\ \E j \in 1..Len(calls) :
              /\ calls[j].fn = "onMatchFound" /\ calls[j].scan = logins[k].scan
              /\ calls[j].match[1].label = logins[k].guardId
    /\ Len(logins) = Cardinality({j \in 1..Len(calls) : calls[j].fn = "onMatchFound"})
    /\ \A j \in 1..Len(calls) :
         (calls[j].fn = "onScanComplete" /\ calls[j].success) =>
           (j > 1 /\ calls[j - 1].fn = "onMatchFound" /\ calls[j - 1].scan = calls[j].scan)
    /\ guard # None =>
         \E k \in 1..Len(logins) : logins[k].state = "true" /\ guard = Some(logins[k].guardId)
    /\ page = "dashboard" => \E k \in 1..Len(logins) : logins[k].state = "true"

\* The second of two enrolled guards is matched and signed in.
C26_Witness ==
  /\ page = "dashboard" /\ Len(guardDescriptors) = 2
  /\ guard = Some(GuardIds[2])
  /\ \E k \in 1..Len(logins) : logins[k].state = "true" /\ logins[k].guardId = GuardIds[2]

====
